---- MODULE Spec2Model ----
(***************************************************************************)
(* CorefFeatsFlatViews: the coreference flat-view feature extractor of     *)
(* docqa/data/feature_extractors/coref_feats_flat_veiws.py.                *)
(*                                                                         *)
(* The extractor object is the record `self`; `call` records the last      *)
(* operation applied to it together with its argument and its outcome.     *)
(* Token indices, cluster ids and axes are 0-based as in the source; a     *)
(* numpy array is a record [shape, data] with data in row-major order, the *)
(* element with flat index k stored at data[k + 1].                        *)
(*                                                                         *)
(* For calls that run at the same time, `frames` holds the position and    *)
(* the local variables of every extract_features call in flight and        *)
(* `buffers` the label array each of them allocated.                        *)
(***************************************************************************)
EXTENDS Integers, Sequences, FiniteSets, TLC

VARIABLES self, call, frames, buffers

vars == <<self, call, frames, buffers>>

(***************************************************************************)
(* Bounds of the enumerated inputs.                                        *)
(***************************************************************************)
\* the most sentences of an enumerated document without clusters
MaxSents == 2
\* the most tokens one enumerated mention spans
MaxMentionLen == 2
\* the largest max_coref_clusters the extractor is constructed with
MaxCap == 2
\* the number of extract_features calls that may be in flight at once
NumCalls == 2

(***************************************************************************)
(* Python and numpy helpers.                                               *)
(***************************************************************************)
Min(a, b) == IF a < b THEN a ELSE b

Max(a, b) == IF a > b THEN a ELSE b

\* s[:k] for a list s, negative k counting from the end
PyPrefix(s, k) ==
    LET n == Len(s)
        stop == IF k < 0 THEN Max(n + k, 0) ELSE Min(k, n)
    IN  SubSeq(s, 1, stop)

\* np.zeros(n, dtype=np.int32)
Zeros(n) == [shape |-> <<n>>, data |-> [i \in 1..n |-> 0]]

\* np.ones(n, dtype=np.int32)
Ones(n) == [shape |-> <<n>>, data |-> [i \in 1..n |-> 1]]

\* np.expand_dims(x, axis) of a one-dimensional x, axis in {0, 1}
ExpandDims(x, axis) ==
    [shape |-> IF axis = 0 THEN <<1, x.shape[1]>> ELSE <<x.shape[1], 1>>,
     data |-> x.data]

\* np.array([x]) of a one-dimensional x
ArrayOfOne(x) == [shape |-> <<1, x.shape[1]>>, data |-> x.data]

\* a.repeat(n, axis) of a two-dimensional a, n >= 0: every row (axis 0) or
\* every column (axis 1) is repeated n times in place
Repeat(a, n, axis) ==
    LET r == a.shape[1]
        c == a.shape[2]
    IN  IF axis = 0
        THEN [shape |-> <<r * n, c>>,
              data |-> [k \in 1..(r * n * c) |->
                          LET i == (k - 1) \div c
                              j == (k - 1) % c
                          IN  a.data[(i \div n) * c + j + 1]]]
        ELSE [shape |-> <<r, c * n>>,
              data |-> [k \in 1..(r * c * n) |->
                          LET i == (k - 1) \div (c * n)
                              j == (k - 1) % (c * n)
                          IN  a.data[i * c + (j \div n) + 1]]]

\* np.concatenate([a, b], axis) of two-dimensional a and b
Concat2(a, b, axis) ==
    IF axis = 0
    THEN [shape |-> <<a.shape[1] + b.shape[1], a.shape[2]>>,
          data |-> a.data \o b.data]
    ELSE LET r == a.shape[1]
             ca == a.shape[2]
             cb == b.shape[2]
         IN  [shape |-> <<r, ca + cb>>,
              data |-> [k \in 1..(r * (ca + cb)) |->
                          LET i == (k - 1) \div (ca + cb)
                              j == (k - 1) % (ca + cb)
                          IN  IF j < ca THEN a.data[i * ca + j + 1]
                                        ELSE b.data[i * cb + (j - ca) + 1]]]

\* np.concatenate(arrays, axis) of a non-empty list
RECURSIVE Concatenate(_, _)
Concatenate(arrays, axis) ==
    IF Len(arrays) = 1 THEN arrays[1]
    ELSE Concat2(Concatenate(SubSeq(arrays, 1, Len(arrays) - 1), axis),
                 arrays[Len(arrays)], axis)

\* trim_feats_list(feats_list, max_len) of docqa.data.feature_extractors.utils:
\* the list unchanged when it fits, else its first max_len entries
trim_feats_list(feats_list, max_len) ==
    IF Len(feats_list) > max_len THEN PyPrefix(feats_list, max_len)
    ELSE feats_list

(***************************************************************************)
(* The vocabulary.                                                         *)
(***************************************************************************)
\* the key expression of the dict comprehension in __init__: the string
\* literal itself, to which the loop variable i is never applied
VocabKey(i) == "C{0:02d}"

\* {VocabKey(i): i + labels_start_id for i in range(max_coref_clusters)};
\* of several i with one key the last one stays
BuildVocab(max_coref_clusters, labels_start_id) ==
    LET ids == 0..(max_coref_clusters - 1)
        keys == {VocabKey(i) : i \in ids}
        last_i(k) == CHOOSE i \in ids :
                        /\ VocabKey(i) = k
                        /\ \A j \in ids : VocabKey(j) = k => j <= i
    IN  [k \in keys |-> last_i(k) + labels_start_id]

\* a constructor that rejects a non-positive max_views
ConstructorValidating(args) ==
    IF args.max_views <= 0
    THEN [status |-> "ConfigurationError", self |-> [max_views |-> 1]]
    ELSE [status |-> "ok",
          self |-> [use_mask |-> args.use_mask,
                    labels_start_id |-> args.labels_start_id,
                    max_coref_clusters |-> args.max_coref_clusters,
                    max_views |-> args.max_views,
                    namespace |-> args.namespace,
                    views_axis |-> args.views_axis,
                    pad_views |-> args.pad_views,
                    vocab_feat_name2id |->
                        BuildVocab(args.max_coref_clusters, args.labels_start_id)]]

\* __init__: stores every argument as given and builds the vocabulary
Constructor(args) ==
    [status |-> "ok",
     self |-> [use_mask |-> args.use_mask,
               labels_start_id |-> args.labels_start_id,
               max_coref_clusters |-> args.max_coref_clusters,
               max_views |-> args.max_views,
               namespace |-> args.namespace,
               views_axis |-> args.views_axis,
               pad_views |-> args.pad_views,
               vocab_feat_name2id |->
                   BuildVocab(args.max_coref_clusters, args.labels_start_id)]]

\* a rebase that shifts the ids and forgets to record the new offset
set_vocab_feats_stale_offset(s, offset) ==
    [s EXCEPT !.vocab_feat_name2id =
                  [k \in DOMAIN s.vocab_feat_name2id |->
                      s.vocab_feat_name2id[k] - s.labels_start_id + offset]]

\* set_vocab_feats_name2id_ids(offset): the object after the call
set_vocab_feats_name2id_ids(s, offset) ==
    [s EXCEPT !.vocab_feat_name2id =
                  [k \in DOMAIN s.vocab_feat_name2id |->
                      s.vocab_feat_name2id[k] - s.labels_start_id + offset],
              !.labels_start_id = offset]

\* get_vocab_feats_name2id()
get_vocab_feats_name2id(s) == s.vocab_feat_name2id

\* get_vocab_feats_id2name(): {v: k for k, v in name2id.items()}; the names
\* of one object never share an id (BuildVocab leaves at most one name)
get_vocab_feats_id2name(s) ==
    LET name2id == s.vocab_feat_name2id
    IN  [v \in {name2id[k] : k \in DOMAIN name2id} |->
            CHOOSE k \in DOMAIN name2id : name2id[k] = v]

(***************************************************************************)
(* extract_features: cluster selection.                                    *)
(***************************************************************************)
\* len(cl.get("mentions", []))
MentionCount(cl) == IF "mentions" \in DOMAIN cl THEN Len(cl.mentions) ELSE 0

\* a sort key with its two components swapped: (cluster id, mention count)
SortKeyLessIdFirst(coref_clusters, i, j) ==
    LET ci == MentionCount(coref_clusters[i + 1])
        cj == MentionCount(coref_clusters[j + 1])
    IN  i < j \/ (i = j /\ ci < cj)

\* the sort key (x[1], x[0]) = (mention count, cluster id) of cluster i is
\* smaller than that of cluster j
SortKeyLess(coref_clusters, i, j) ==
    LET ci == MentionCount(coref_clusters[i + 1])
        cj == MentionCount(coref_clusters[j + 1])
    IN  ci < cj \/ (ci = cj /\ i < j)

\* the cluster ids in the order sorted(..., key=...) leaves them in
SortedClusterIds(coref_clusters) ==
    LET ids == 0..(Len(coref_clusters) - 1)
    IN  [p \in 1..Len(coref_clusters) |->
            CHOOSE i \in ids :
                Cardinality({j \in ids : SortKeyLess(coref_clusters, j, i)}) = p - 1]

\* the ids of the clusters the loop iterates over, in iteration order
SelectedClusterIds(coref_clusters, max_coref_clusters) ==
    IF Len(coref_clusters) > max_coref_clusters
    THEN PyPrefix(SortedClusterIds(coref_clusters), max_coref_clusters)
    ELSE [p \in 1..Len(coref_clusters) |-> p - 1]

\* the list coref_clusters after the selection
SelectedClusters(coref_clusters, max_coref_clusters) ==
    LET ids == SelectedClusterIds(coref_clusters, max_coref_clusters)
    IN  [p \in 1..Len(ids) |-> coref_clusters[ids[p] + 1]]

(***************************************************************************)
(* extract_features: writing the labels.                                   *)
(***************************************************************************)
\* a label that leaves out the + 1
ClusterLabelZeroBased(labels_start_id, coref_id) == labels_start_id + coref_id

\* cluster_label = self._labels_start_id + coref_id + 1
ClusterLabel(labels_start_id, coref_id) == labels_start_id + coref_id + 1

\* the array position a Python index k addresses in an array of length n
ArrayIndex(k, n) == IF k < 0 THEN k + n ELSE k

\* a write that leaves a token alone once it carries a label
WriteMentionKeepFirst(data, mention, cluster_label) ==
    LET n == Len(data)
        written == {ArrayIndex(k, n) : k \in mention.start..(mention.end - 1)}
    IN  [i \in 1..n |-> IF (i - 1) \in written /\ data[i] = 0 THEN cluster_label
                                                               ELSE data[i]]

\* for tkn_id in range(start, end): coref_feats_arr[tkn_id] = cluster_label
WriteMention(data, mention, cluster_label) ==
    LET n == Len(data)
        written == {ArrayIndex(k, n) : k \in mention.start..(mention.end - 1)}
    IN  [i \in 1..n |-> IF (i - 1) \in written THEN cluster_label ELSE data[i]]

\* for mention in coref_cluster["mentions"], first to last
RECURSIVE WriteMentions(_, _, _)
WriteMentions(data, mentions, cluster_label) ==
    IF mentions = <<>> THEN data
    ELSE WriteMentions(WriteMention(data, Head(mentions), cluster_label),
                       Tail(mentions), cluster_label)

\* for coref_id, coref_cluster in enumerate(coref_clusters), from coref_id on;
\* a cluster without "mentions" is skipped
RECURSIVE WriteClusters(_, _, _, _)
WriteClusters(data, coref_clusters, coref_id, labels_start_id) ==
    IF coref_id >= Len(coref_clusters) THEN data
    ELSE LET coref_cluster == coref_clusters[coref_id + 1]
             cluster_label == ClusterLabel(labels_start_id, coref_id)
             written == IF "mentions" \notin DOMAIN coref_cluster THEN data
                        ELSE WriteMentions(data, coref_cluster.mentions, cluster_label)
         IN  WriteClusters(written, coref_clusters, coref_id + 1, labels_start_id)

\* some coref_feats_arr[tkn_id] addresses no element of an array of length n
IndexOutOfBounds(coref_clusters, n) ==
    \E p \in 1..Len(coref_clusters) :
        /\ "mentions" \in DOMAIN coref_clusters[p]
        /\ \E q \in 1..Len(coref_clusters[p].mentions) :
              LET m == coref_clusters[p].mentions[q]
              IN  \E k \in m.start..(m.end - 1) : k >= n \/ k < 0 - n

(***************************************************************************)
(* extract_features: stacking, padding and the mask.                       *)
(***************************************************************************)
\* all_tokens_cnt += len(sent["tokens"]) over the sentences
RECURSIVE CountTokens(_)
CountTokens(sentences) ==
    IF sentences = <<>> THEN 0
    ELSE Len(Head(sentences).tokens) + CountTokens(Tail(sentences))

\* the views stacked along views_axis, and the mask beside them
StackViews(src_feats, sent_ids_mask, views_axis) ==
    IF Len(src_feats) > 1
    THEN [src_feats |-> Concatenate(src_feats, views_axis),
          sent_ids_mask |-> Repeat(ExpandDims(sent_ids_mask, views_axis),
                                   Len(src_feats), views_axis)]
    ELSE [src_feats |-> src_feats[1],
          sent_ids_mask |-> ArrayOfOne(sent_ids_mask)]

\* self._pad_views and self._max_views < src_feats.shape[1]
PadCondition(s, src_feats) == s.pad_views /\ s.max_views < src_feats.shape[2]

\* both arrays repeated max_views times along views_axis when PadCondition holds
PadViews(s, stacked) ==
    IF PadCondition(s, stacked.src_feats)
    THEN [src_feats |-> Repeat(stacked.src_feats, s.max_views, s.views_axis),
          sent_ids_mask |-> Repeat(stacked.sent_ids_mask, s.max_views, s.views_axis)]
    ELSE stacked

\* a use_mask that is never applied: the computed mask stays
UseMaskIgnored(s, padded) == padded

\* if self._use_mask: sent_ids_mask = src_feats
UseMask(s, padded) ==
    IF s.use_mask THEN [padded EXCEPT !.sent_ids_mask = padded.src_feats]
    ELSE padded

\* the key the ValueError of a document without "sentences" names in its
\* message "inputs must be a parse containing `tokens` field!"
MissingFieldNamed == "tokens"

\* extract_features(inputs): the outcome of one call on the object s
extract_features(s, inputs) ==
    IF "sentences" \notin DOMAIN inputs
    THEN [status |-> "ValueError", field |-> MissingFieldNamed]
    ELSE
    LET all_tokens_cnt == CountTokens(inputs.sentences)
        sent_ids_mask == Ones(all_tokens_cnt)
        coref_clusters ==
            IF "coref_clusters" \in DOMAIN inputs
            THEN SelectedClusters(inputs.coref_clusters, s.max_coref_clusters)
            ELSE <<>>
        coref_feats_arr ==
            [shape |-> <<all_tokens_cnt>>,
             data |-> WriteClusters(Zeros(all_tokens_cnt).data, coref_clusters,
                                    0, s.labels_start_id)]
        trimmed == trim_feats_list(<<coref_feats_arr>>, s.max_views)
        src_feats == [v \in 1..Len(trimmed) |-> ExpandDims(trimmed[v], s.views_axis)]
        final == UseMask(s, PadViews(s, StackViews(src_feats, sent_ids_mask,
                                                   s.views_axis)))
    IN  IF IndexOutOfBounds(coref_clusters, all_tokens_cnt)
        THEN [status |-> "IndexError"]
        ELSE IF Len(src_feats) = 0
        THEN [status |-> "IndexError"]
        ELSE IF final.src_feats.shape # final.sent_ids_mask.shape
        THEN [status |-> "AssertionError"]
        ELSE [status |-> "ok",
              features |-> final.src_feats,
              mask |-> final.sent_ids_mask]

\* an extraction that sorts and cuts the document's own cluster list in place
extract_features_sorting_in_place(s, inputs) ==
    [self |-> s,
     inputs |-> IF "sentences" \in DOMAIN inputs /\ "coref_clusters" \in DOMAIN inputs
                THEN [inputs EXCEPT !.coref_clusters =
                          SelectedClusters(@, s.max_coref_clusters)]
                ELSE inputs]

\* the object and the document as one extract_features call leaves them: the
\* method assigns to no attribute of self and to no item of inputs (sorted()
\* and the list comprehension build new lists, the arrays are new)
extract_features_effects(s, inputs) == [self |-> s, inputs |-> inputs]

(***************************************************************************)
(* The enumerated inputs.                                                  *)
(***************************************************************************)
Tokens(n) == [i \in 1..n |-> "w"]

Sentence(n) == [tokens |-> Tokens(n)]

Mention(s, e) == [start |-> s, end |-> e]

Cluster(mentions) == [mentions |-> mentions]

\* a cluster that carries no "mentions" key
ClusterWithoutMentions == [id |-> "c"]

\* the non-empty mentions of at most MaxMentionLen tokens in a document of n tokens
Mentions(n) ==
    {m \in [start : 0..(n - 1), end : 1..n] :
        m.start < m.end /\ m.end - m.start <= MaxMentionLen}

SentenceLists ==
    UNION {[1..n -> {Sentence(k) : k \in 0..2}] : n \in 0..MaxSents}

\* documents without clusters: no cluster field, or an empty list
PlainDocs ==
    {[sentences |-> ss] : ss \in SentenceLists} \cup
    {[sentences |-> ss, coref_clusters |-> <<>>] : ss \in SentenceLists}

ClusterChoices(n) ==
    {ClusterWithoutMentions, Cluster(<<>>)} \cup {Cluster(<<m>>) : m \in Mentions(n)}

\* documents of 3 tokens with one or two clusters of at most one mention each
CorefDocs ==
    {[sentences |-> <<Sentence(2), Sentence(1)>>, coref_clusters |-> cs] :
        cs \in UNION {[1..c -> ClusterChoices(3)] : c \in 1..2}}

\* 2 sentences of 3 tokens, one cluster with the one mention [1, 3)
ExampleDoc ==
    [sentences |-> <<Sentence(3), Sentence(3)>>,
     coref_clusters |-> <<Cluster(<<Mention(1, 3)>>)>>]

\* four clusters with the mention counts 3, 1, 2, 1
RankingDoc ==
    [sentences |-> <<Sentence(3), Sentence(3)>>,
     coref_clusters |-> <<Cluster(<<Mention(0, 1), Mention(2, 3), Mention(4, 5)>>),
                          Cluster(<<Mention(1, 2)>>),
                          Cluster(<<Mention(3, 4), Mention(5, 6)>>),
                          Cluster(<<Mention(2, 4)>>)>>]

\* two clusters that both cover token 5, the mentions in either order
OverlapDocs ==
    {[sentences |-> <<Sentence(4), Sentence(2)>>,
      coref_clusters |-> <<Cluster(ms1), Cluster(ms2)>>] :
        ms1 \in {<<Mention(4, 6), Mention(0, 2)>>, <<Mention(0, 2), Mention(4, 6)>>},
        ms2 \in {<<Mention(5, 6), Mention(1, 3)>>, <<Mention(1, 3), Mention(5, 6)>>}}

\* parses that carry "tokens" but no "sentences"
DocsWithoutSentences ==
    {[tokens |-> Tokens(2)],
     [tokens |-> Tokens(2), coref_clusters |-> <<Cluster(<<Mention(0, 1)>>)>>]}

Docs == PlainDocs \cup CorefDocs \cup {ExampleDoc, RankingDoc} \cup OverlapDocs
            \cup DocsWithoutSentences

ViewCounts == {0, 1, 2, 4}

CtorArgs ==
    [max_views : ViewCounts,
     max_coref_clusters : 0..MaxCap,
     labels_start_id : {0, 1},
     namespace : {"coref_feats"},
     pad_views : BOOLEAN,
     views_axis : {0, 1},
     use_mask : BOOLEAN]

Offsets == {0, 2}

(***************************************************************************)
(* The state machine.                                                      *)
(***************************************************************************)
Calls == 1..NumCalls

\* no extract_features call in flight
NoFrames == [t \in Calls |-> [pc |-> "idle"]]

NoBuffers == [t \in Calls |-> <<>>]

\* the state after CorefFeatsFlatViews(**args)
Init ==
    \E args \in CtorArgs :
        LET made == Constructor(args)
        IN  /\ self = made.self
            /\ call = [op |-> "__init__", args |-> args, status |-> made.status]
            /\ frames = NoFrames
            /\ buffers = NoBuffers

\* self.set_vocab_feats_name2id_ids(offset); call.before is the object before
\* the call, call.repeated says that the call before it was the same call
Rebase(offset) ==
    /\ call.op = "__init__" => call.status = "ok"
    /\ self' = set_vocab_feats_name2id_ids(self, offset)
    /\ call' = [op |-> "set_vocab_feats_name2id_ids", offset |-> offset,
                before |-> self,
                repeated |-> (/\ call.op = "set_vocab_feats_name2id_ids"
                              /\ call.offset = offset)]
    /\ UNCHANGED <<frames, buffers>>

\* self.extract_features(inputs); call.before is the object before the call,
\* call.after the document after it
Extract(inputs) ==
    /\ call.op = "__init__" => call.status = "ok"
    /\ self' = extract_features_effects(self, inputs).self
    /\ call' = [op |-> "extract_features", inputs |-> inputs, before |-> self,
                after |-> extract_features_effects(self, inputs).inputs,
                out |-> extract_features(self, inputs)]
    /\ UNCHANGED <<frames, buffers>>

Next ==
    \/ \E offset \in Offsets : Rebase(offset)
    \/ \E inputs \in Docs : Extract(inputs)

Spec == Init /\ [][Next]_vars

(***************************************************************************)
(* extract_features calls in flight at the same time on one object, no     *)
(* set_vocab_feats_name2id_ids call among them.  A step is the code        *)
(* between two reads of an attribute of self.                              *)
(***************************************************************************)
\* an array that all calls share instead of one allocated per call
ArrayOfShared(t) == 1

\* the array coref_feats_arr of call t: np.zeros allocates a new one in
\* every call
ArrayOf(t) == t

\* the documents of the concurrent calls
ConcDocs ==
    {ExampleDoc, RankingDoc,
     [sentences |-> <<Sentence(4), Sentence(2)>>,
      coref_clusters |-> <<Cluster(<<Mention(4, 6), Mention(0, 2)>>),
                           Cluster(<<Mention(5, 6), Mention(1, 3)>>)>>],
     [sentences |-> <<Sentence(1)>>],
     [tokens |-> Tokens(2)]}

ConcCtorArgs ==
    [max_views : {1, 2},
     max_coref_clusters : 0..MaxCap,
     labels_start_id : {0, 1},
     namespace : {"coref_feats"},
     pad_views : BOOLEAN,
     views_axis : {0, 1},
     use_mask : BOOLEAN]

ConcInit ==
    \E args \in ConcCtorArgs :
        LET made == Constructor(args)
        IN  /\ self = made.self
            /\ call = [op |-> "__init__", args |-> args, status |-> made.status]
            /\ frames = NoFrames
            /\ buffers = NoBuffers

\* the call is entered: the test for "sentences", the token count and the
\* two new arrays
Enter(t, inputs) ==
    /\ frames[t].pc = "idle"
    /\ IF "sentences" \notin DOMAIN inputs
       THEN /\ frames' = [frames EXCEPT ![t] =
                    [pc |-> "done", inputs |-> inputs,
                     out |-> [status |-> "ValueError", field |-> MissingFieldNamed]]]
            /\ UNCHANGED buffers
       ELSE LET all_tokens_cnt == CountTokens(inputs.sentences)
            IN  /\ frames' = [frames EXCEPT ![t] =
                        [pc |-> "select", inputs |-> inputs,
                         sent_ids_mask |-> Ones(all_tokens_cnt)]]
                /\ buffers' = [buffers EXCEPT ![ArrayOf(t)] = Zeros(all_tokens_cnt).data]
    /\ UNCHANGED <<self, call>>

\* the clusters are selected under self._max_coref_clusters
Select(t) ==
    /\ frames[t].pc = "select"
    /\ frames' = [frames EXCEPT ![t] =
           [pc |-> "label", inputs |-> frames[t].inputs,
            sent_ids_mask |-> frames[t].sent_ids_mask,
            coref_clusters |->
                IF "coref_clusters" \in DOMAIN frames[t].inputs
                THEN SelectedClusters(frames[t].inputs.coref_clusters,
                                      self.max_coref_clusters)
                ELSE <<>>,
            coref_id |-> 0]]
    /\ UNCHANGED <<self, call, buffers>>

\* one turn of the loop over the clusters: the label is computed from
\* self._labels_start_id and written for every mention of the cluster
Label(t) ==
    /\ frames[t].pc = "label"
    /\ frames[t].coref_id < Len(frames[t].coref_clusters)
    /\ LET f == frames[t]
           coref_cluster == f.coref_clusters[f.coref_id + 1]
           cluster_label == ClusterLabel(self.labels_start_id, f.coref_id)
           data == buffers[ArrayOf(t)]
       IN  IF IndexOutOfBounds(<<coref_cluster>>, Len(data))
           THEN /\ frames' = [frames EXCEPT ![t] =
                        [pc |-> "done", inputs |-> f.inputs,
                         out |-> [status |-> "IndexError"]]]
                /\ UNCHANGED buffers
           ELSE /\ frames' = [frames EXCEPT ![t].coref_id = f.coref_id + 1]
                /\ buffers' = [buffers EXCEPT ![ArrayOf(t)] =
                        IF "mentions" \notin DOMAIN coref_cluster THEN data
                        ELSE WriteMentions(data, coref_cluster.mentions, cluster_label)]
    /\ UNCHANGED <<self, call>>

\* after the loop: the one view is trimmed under self._max_views, given its
\* views axis and stacked with the mask
Stack(t) ==
    /\ frames[t].pc = "label"
    /\ frames[t].coref_id >= Len(frames[t].coref_clusters)
    /\ LET f == frames[t]
           coref_feats_arr == [shape |-> <<Len(buffers[ArrayOf(t)])>>,
                               data |-> buffers[ArrayOf(t)]]
           trimmed == trim_feats_list(<<coref_feats_arr>>, self.max_views)
           src_feats == [v \in 1..Len(trimmed) |->
                            ExpandDims(trimmed[v], self.views_axis)]
       IN  frames' = [frames EXCEPT ![t] =
               IF Len(src_feats) = 0
               THEN [pc |-> "done", inputs |-> f.inputs,
                     out |-> [status |-> "IndexError"]]
               ELSE [pc |-> "pad", inputs |-> f.inputs,
                     views |-> StackViews(src_feats, f.sent_ids_mask,
                                          self.views_axis)]]
    /\ UNCHANGED <<self, call, buffers>>

\* the views are padded under self._pad_views and self._max_views
Pad(t) ==
    /\ frames[t].pc = "pad"
    /\ frames' = [frames EXCEPT ![t] =
           [pc |-> "mask", inputs |-> frames[t].inputs,
            views |-> PadViews(self, frames[t].views)]]
    /\ UNCHANGED <<self, call, buffers>>

\* self._use_mask is applied, the shapes are asserted and the pair returned
Finish(t) ==
    /\ frames[t].pc = "mask"
    /\ LET final == UseMask(self, frames[t].views)
       IN  frames' = [frames EXCEPT ![t] =
               [pc |-> "done", inputs |-> frames[t].inputs,
                out |-> IF final.src_feats.shape # final.sent_ids_mask.shape
                        THEN [status |-> "AssertionError"]
                        ELSE [status |-> "ok",
                              features |-> final.src_feats,
                              mask |-> final.sent_ids_mask]]]
    /\ UNCHANGED <<self, call, buffers>>

\* the caller has taken the outcome and the locals of the call are gone;
\* another call may start in its place
Return(t) ==
    /\ frames[t].pc = "done"
    /\ frames' = [frames EXCEPT ![t] = [pc |-> "idle"]]
    /\ buffers' = [buffers EXCEPT ![ArrayOf(t)] = <<>>]
    /\ UNCHANGED <<self, call>>

ConcNext ==
    \E t \in Calls :
        \/ \E inputs \in ConcDocs : Enter(t, inputs)
        \/ Select(t)
        \/ Label(t)
        \/ Stack(t)
        \/ Pad(t)
        \/ Finish(t)
        \/ Return(t)

SpecConc == ConcInit /\ [][ConcNext]_vars

(***************************************************************************)
(* Vocabulary of the properties below.                                     *)
(***************************************************************************)
IsExtract == call.op = "extract_features"

HasSentences == "sentences" \in DOMAIN call.inputs

Returned == IsExtract /\ call.out.status = "ok"

\* the element of a two-dimensional array at view v and token t
ViewValue(arr, views_axis, v, t) ==
    IF views_axis = 0 THEN arr.data[v * arr.shape[2] + t + 1]
    ELSE arr.data[t * arr.shape[2] + v + 1]

\* the length of the array along the views axis and along the token axis
ViewLen(arr, views_axis) == arr.shape[views_axis + 1]

TokenLen(arr, views_axis) == arr.shape[2 - views_axis]

GivenClusters ==
    IF "coref_clusters" \in DOMAIN call.inputs THEN call.inputs.coref_clusters
    ELSE <<>>

\* the clusters the call iterates over, in selection order
CallClusters == SelectedClusters(GivenClusters, self.max_coref_clusters)

\* some mention [start, end) of the cluster covers token t
Covers(cl, t) ==
    /\ "mentions" \in DOMAIN cl
    /\ \E q \in 1..Len(cl.mentions) :
          cl.mentions[q].start <= t /\ t < cl.mentions[q].end

\* the positions in selection order of the clusters covering token t
CoveringPositions(t) ==
    {p \in 0..(Len(CallClusters) - 1) : Covers(CallClusters[p + 1], t)}

SetMax(S) == CHOOSE x \in S : \A y \in S : y <= x

\* the number of mentions of cluster i of a list, none when it has no such key
CountOf(cs, i) == IF "mentions" \in DOMAIN cs[i + 1] THEN Len(cs[i + 1].mentions) ELSE 0

\* cluster i comes before cluster j by ascending (mention count, original index)
RankedBefore(cs, i, j) ==
    CountOf(cs, i) < CountOf(cs, j) \/ (CountOf(cs, i) = CountOf(cs, j) /\ i < j)

Digit(d) == <<"0", "1", "2", "3", "4", "5", "6", "7", "8", "9">>[d + 1]

\* C followed by the two-digit zero-padded i
TwoDigitName(i) == "C" \o Digit(i \div 10) \o Digit(i % 10)

(***************************************************************************)
(* The properties.                                                         *)
(***************************************************************************)
\* C1: for max_views >= 1 and a document with a sentence list, extract_features
\* completes and returns a feature and a mask tensor of identical shape (the
\* assertion on the shapes never fails).
C1_ShapePostcondition ==
    (IsExtract /\ HasSentences /\ self.max_views >= 1) =>
        /\ call.out.status = "ok"
        /\ call.out.features.shape = call.out.mask.shape

\* C2: with pad_views set and the one produced view fewer than max_views, the
\* returned features and mask have length max_views along views_axis and every
\* slice along that axis equals the first, whatever the token count.
C2_PaddedToMaxViews ==
    (Returned /\ self.pad_views /\ 1 < self.max_views) =>
        /\ ViewLen(call.out.features, self.views_axis) = self.max_views
        /\ ViewLen(call.out.mask, self.views_axis) = self.max_views
        /\ \A v \in 0..(self.max_views - 1) :
             \A t \in 0..(TokenLen(call.out.features, self.views_axis) - 1) :
                /\ ViewValue(call.out.features, self.views_axis, v, t)
                     = ViewValue(call.out.features, self.views_axis, 0, t)
                /\ ViewValue(call.out.mask, self.views_axis, v, t)
                     = ViewValue(call.out.mask, self.views_axis, 0, t)

\* C3: with more clusters than max_coref_clusters the call iterates over exactly
\* max_coref_clusters of them, those first by ascending (mention count, original
\* index), in that order; otherwise over all of them in their original order;
\* and a non-zero label in the returned features sits on a token that the
\* cluster at the label's position in that order covers.
C3_ClusterSelection ==
    (IsExtract /\ HasSentences /\ "coref_clusters" \in DOMAIN call.inputs) =>
        LET cs == call.inputs.coref_clusters
            cap == self.max_coref_clusters
            ids == SelectedClusterIds(cs, cap)
            kept == {ids[p] : p \in 1..Len(ids)}
        IN  /\ kept \subseteq 0..(Len(cs) - 1)
            /\ IF Len(cs) > cap
               THEN /\ Len(ids) = cap
                    /\ \A p, q \in 1..Len(ids) : p < q => RankedBefore(cs, ids[p], ids[q])
                    /\ \A i \in (0..(Len(cs) - 1)) \ kept :
                          \A p \in 1..Len(ids) : RankedBefore(cs, ids[p], i)
               ELSE ids = [p \in 1..Len(cs) |-> p - 1]
            /\ Returned =>
                 \A t \in 0..(TokenLen(call.out.features, self.views_axis) - 1) :
                    LET x == ViewValue(call.out.features, self.views_axis, 0, t)
                        p == x - self.labels_start_id - 1
                    IN  x # 0 => p \in 0..(Len(ids) - 1) /\ Covers(cs[ids[p + 1] + 1], t)

\* C3 witness: the mention counts 3, 1, 2, 1 under the cap 2 keep the clusters
\* 1 and 3, in that order, and the features carry their two labels.
C3_Witness ==
    /\ Returned
    /\ call.inputs = RankingDoc
    /\ self.max_coref_clusters = 2
    /\ self.views_axis = 0
    /\ SelectedClusterIds(call.inputs.coref_clusters, self.max_coref_clusters) = <<1, 3>>
    /\ call.out.features.shape = <<1, 6>>
    /\ call.out.features.data =
         <<0, self.labels_start_id + 1, self.labels_start_id + 2,
           self.labels_start_id + 2, 0, 0>>

\* C4: in every returned feature view a token covered by a mention of a selected
\* cluster holds labels_start_id + p + 1 for the last position p (in selection
\* order) of a cluster covering it, and a token no mention covers holds 0.
C4_LabelValues ==
    (Returned /\ HasSentences) =>
        \A v \in 0..(ViewLen(call.out.features, self.views_axis) - 1) :
          \A t \in 0..(TokenLen(call.out.features, self.views_axis) - 1) :
            ViewValue(call.out.features, self.views_axis, v, t) =
                IF CoveringPositions(t) = {} THEN 0
                ELSE self.labels_start_id + SetMax(CoveringPositions(t)) + 1

\* C4 witness: 2 sentences of 3 tokens, one cluster with the mention [1, 3) and
\* labels_start_id = 1 give the features [[0,2,2,0,0,0]] and the mask of ones.
C4_Witness ==
    /\ Returned
    /\ call.inputs = ExampleDoc
    /\ self.labels_start_id = 1
    /\ call.out.features = [shape |-> <<1, 6>>, data |-> <<0, 2, 2, 0, 0, 0>>]
    /\ call.out.mask = [shape |-> <<1, 6>>, data |-> <<1, 1, 1, 1, 1, 1>>]

\* C5: a token covered by mentions of two selected clusters ends with the label
\* of the one later in selection order, never with the earlier one's label.
C5_LastWriteWins ==
    (Returned /\ HasSentences) =>
        \A t \in 0..(TokenLen(call.out.features, self.views_axis) - 1) :
          \A p, q \in CoveringPositions(t) :
            (p < q /\ \A r \in CoveringPositions(t) : r <= q) =>
                /\ ViewValue(call.out.features, self.views_axis, 0, t)
                     = self.labels_start_id + q + 1
                /\ ViewValue(call.out.features, self.views_axis, 0, t)
                     # self.labels_start_id + p + 1

\* C5 witness: two kept clusters of two mentions each both cover token 5, and
\* token 5 carries the label of the second.
C5_Witness ==
    /\ Returned
    /\ call.inputs \in OverlapDocs
    /\ self.views_axis = 0
    /\ CoveringPositions(5) = {0, 1}
    /\ call.out.features.data[6] = self.labels_start_id + 2

\* C6: a document with zero clusters (no cluster field, or an empty list) and
\* use_mask unset gives features of zeros and a mask of ones, both of shape
\* [1, total_tokens].
C6_NoClusters ==
    (IsExtract /\ HasSentences /\ GivenClusters = <<>>
        /\ ~self.use_mask /\ self.max_views >= 1) =>
        LET n == CountTokens(call.inputs.sentences)
        IN  /\ call.out.status = "ok"
            /\ call.out.features = [shape |-> <<1, n>>, data |-> [i \in 1..n |-> 0]]
            /\ call.out.mask = [shape |-> <<1, n>>, data |-> [i \in 1..n |-> 1]]

\* C7: construction with max_coref_clusters = n and labels_start_id = s yields
\* the vocabulary of exactly the n names C00, C01, ..., the name of index i
\* carrying the id s + i.
C7_Vocabulary ==
    call.op = "__init__" =>
        LET n == call.args.max_coref_clusters
            s == call.args.labels_start_id
            name2id == get_vocab_feats_name2id(self)
        IN  /\ DOMAIN name2id = {TwoDigitName(i) : i \in 0..(n - 1)}
            /\ Cardinality(DOMAIN name2id) = n
            /\ \A i \in 0..(n - 1) : name2id[TwoDigitName(i)] = s + i

\* C8: a rebase that repeats the rebase before it (same offset) leaves the
\* name-to-id mapping and the current offset as that first call left them.
C8_RebaseIdempotent ==
    (call.op = "set_vocab_feats_name2id_ids" /\ call.repeated) =>
        /\ get_vocab_feats_name2id(self) = get_vocab_feats_name2id(call.before)
        /\ self.labels_start_id = call.before.labels_start_id
        /\ self.labels_start_id = call.offset

\* C8 witness: the second of two rebases to one offset that differs from the
\* constructed one, on a vocabulary that is not empty.
C8_Witness ==
    /\ call.op = "set_vocab_feats_name2id_ids"
    /\ call.repeated
    /\ call.offset = 2
    /\ DOMAIN get_vocab_feats_name2id(self) # {}

\* C9: on a document without a sentence list extract_features fails with an
\* error that names the missing key "sentences", returns no tensors and leaves
\* the extractor as it was.
C9_MissingSentences ==
    (IsExtract /\ ~HasSentences) =>
        /\ call.out.status = "ValueError"
        /\ call.out.field = "sentences"
        /\ "features" \notin DOMAIN call.out
        /\ "mask" \notin DOMAIN call.out
        /\ self = call.before

\* C10 as stated: construction with max_views <= 0 fails with a configuration
\* error, so no extractor has a non-positive max_views and no extract_features
\* call runs under one.
C10_InvalidRejected ==
    /\ (call.op = "__init__" /\ call.args.max_views <= 0) =>
            call.status = "ConfigurationError"
    /\ (call.op = "__init__" /\ call.status = "ok") => self.max_views >= 1
    /\ IsExtract => self.max_views >= 1

\* C10 amended: construction validates nothing: it succeeds for every max_views,
\* also a non-positive one, and stores each parameter as given.
C10_ConstructionUnvalidated ==
    call.op = "__init__" =>
        /\ call.status = "ok"
        /\ self.max_views = call.args.max_views
        /\ self.max_coref_clusters = call.args.max_coref_clusters
        /\ self.labels_start_id = call.args.labels_start_id
        /\ self.pad_views = call.args.pad_views
        /\ self.views_axis = call.args.views_axis
        /\ self.use_mask = call.args.use_mask

\* C10 witness: an extractor constructed with max_views = 0.
C10_Witness ==
    /\ call.op = "__init__"
    /\ call.status = "ok"
    /\ call.args.max_views <= 0
    /\ self.max_views <= 0

\* C11: with use_mask set the returned mask is the returned feature tensor,
\* shape and values, for every document, views_axis and pad_views; the mask of
\* ones is not what comes back.
C11_MaskIsFeatures ==
    (Returned /\ self.use_mask) =>
        /\ call.out.mask.shape = call.out.features.shape
        /\ call.out.mask.data = call.out.features.data
        /\ \A k \in 1..Len(call.out.features.data) :
              call.out.features.data[k] # 1 => call.out.mask.data[k] # 1

\* C11 witness: a padded call with use_mask set whose features carry a label
\* other than 1, returned as the mask too.
C11_Witness ==
    /\ Returned
    /\ self.use_mask
    /\ self.pad_views
    /\ call.out.features.shape = <<2, 6>>
    /\ call.out.mask = call.out.features
    /\ \E k \in 1..Len(call.out.mask.data) : call.out.mask.data[k] > 1
    /\ \E k \in 1..Len(call.out.mask.data) : call.out.mask.data[k] = 0

\* C13: an extract_features call, returning or failing, leaves the vocabulary,
\* the offset and the construction parameters as they were and the document
\* (sentences, clusters and their order) as it was given; a call that changed
\* the vocabulary or the offset was a set_vocab_feats_name2id_ids call.
C13_ExtractChangesNothing ==
    /\ IsExtract =>
          /\ self = call.before
          /\ get_vocab_feats_name2id(self) = get_vocab_feats_name2id(call.before)
          /\ call.after = call.inputs
    /\ (/\ call.op # "__init__"
        /\ \/ get_vocab_feats_name2id(self) # get_vocab_feats_name2id(call.before)
           \/ self.labels_start_id # call.before.labels_start_id)
          => call.op = "set_vocab_feats_name2id_ids"

\* C13 witness: after a rebase, a returning call that had to sort and cut the
\* four clusters of the document to two.
C13_Witness ==
    /\ Returned
    /\ call.inputs = RankingDoc
    /\ self.max_coref_clusters = 2
    /\ self.labels_start_id = 2
    /\ get_vocab_feats_name2id(self) = [k \in {VocabKey(0)} |-> 3]
    /\ call.after.coref_clusters = RankingDoc.coref_clusters
    /\ self = call.before

\* C14: every non-zero value v of returned features is a vocabulary id plus 1:
\* v - 1 is an id of get_vocab_feats_id2name(), the one of the entry named C
\* with the two-digit position p of the cluster that wrote v; and the label of
\* no selected cluster is the background value 0.
C14_LabelsAreVocabularyIds ==
    (Returned /\ HasSentences) =>
        LET id2name == get_vocab_feats_id2name(self)
        IN  /\ \A t \in 0..(TokenLen(call.out.features, self.views_axis) - 1) :
                 LET v == ViewValue(call.out.features, self.views_axis, 0, t)
                 IN  v # 0 =>
                       /\ (v - 1) \in DOMAIN id2name
                       /\ id2name[v - 1] = TwoDigitName(SetMax(CoveringPositions(t)))
            /\ \A p \in 0..(Len(CallClusters) - 1) :
                 ClusterLabel(self.labels_start_id, p) # 0

\* C12: whatever the interleaving of the steps of the calls in flight, a call
\* that has finished holds exactly the outcome (features and mask, or error)
\* that extract_features gives when run alone on its document.
C12_ConcurrentCallsIndependent ==
    \A t \in Calls :
        frames[t].pc = "done" =>
            frames[t].out = extract_features(self, frames[t].inputs)

\* C12 witness: one call has returned the features of the four-cluster document
\* while another call on a different document is in the middle of its loop,
\* one cluster written and one to go.
C12_Witness ==
    \E t, u \in Calls :
        /\ t # u
        /\ frames[t].pc = "done"
        /\ frames[t].inputs = RankingDoc
        /\ frames[t].out.status = "ok"
        /\ \E k \in 1..6 : frames[t].out.features.data[k] = self.labels_start_id + 2
        /\ frames[u].pc = "label"
        /\ frames[u].inputs # RankingDoc
        /\ frames[u].coref_id = 1
        /\ Len(frames[u].coref_clusters) = 2
        /\ \E k \in 1..Len(buffers[ArrayOf(u)]) : buffers[ArrayOf(u)][k] # 0

====
